---- MODULE Spec2Model ----
(***************************************************************************)
(* People counter: the requests of app/main.py (POST /analyze-video, which *)
(* schedules process_video_task, and GET /status/{job_id}), the            *)
(* asynchronous job pipeline of process_video_task, and the video          *)
(* processor of app/video_processor.py (download, frame sampling, person   *)
(* detection), with the job ledger of app/models.py.                       *)
(*                                                                         *)
(* Python's None is the empty tuple and a present value v is <<v>>, so an  *)
(* absent column and a column holding 0 or "" are different values.        *)
(* A frame rate is an integer number of hundredths of a frame per second.  *)
(* A confidence is an integer number of hundredths.                        *)
(***************************************************************************)
EXTENDS Integers, Sequences, FiniteSets, TLC

\* ------------------------------------------------------------------ bounds

\* Job ids the request handler can hand out.
MaxJobs == 2
\* Frames of a video.
MaxFrames == 3
\* Largest crowd the sampled videos show in one frame.
MaxPeople == 2
\* Boxes of one detection result, and results of one model invocation.
MaxBoxes == 2
MaxResults == 1
\* Largest frame rate of the stride calls, in frames per second.
MaxFps == 30
\* Chunks of a downloaded object.
MaxChunks == 2

\* ------------------------------------------------------- program constants

\* ThreadPoolExecutor(max_workers=2)
MaxWorkers == 2
\* box.cls.item() == 0: the person class
PersonClass == 0
\* box.conf.item() > 0.5, in hundredths
ConfThreshold == 50
\* int(fps * 2): a sample every 2 seconds
SamplePeriodSeconds == 2

None == <<>>
Some(v) == <<v>>

JobIds == 1..MaxJobs

\* ------------------------------------------------------------- exceptions

\* An exception is its type and the message it was built with; str(e) of an
\* exception built with one message is that message.
Exc(type, msg) == [type |-> type, msg |-> msg]
Str(e) == e.msg

S3NotInitialized == Exc("ValueError", "S3 client not initialized. Cannot access S3 URIs.")
NoSuchKey == Exc("ClientError", "An error occurred (NoSuchKey) when calling the GetObject operation")
AccessDenied == Exc("ClientError", "An error occurred (AccessDenied) when calling the GetObject operation")
NoCredentials == Exc("NoCredentialsError", "Unable to locate credentials")
HttpStatusError == Exc("HTTPError", "404 Client Error: Not Found for url")
TransportError == Exc("ConnectionError", "Connection aborted.")
CouldNotOpen == Exc("ValueError", "Could not open video file")
ReadError == Exc("cv2.error", "error while decoding frame")
ModelError == Exc("RuntimeError", "model invocation failed")
ModelMissing == Exc("TypeError", "'NoneType' object is not callable")
DbError == Exc("SQLAlchemyError", "database error")
ModelLoadError == Exc("FileNotFoundError", "No such file or directory: 'yolo11n.pt'")
DeviceError == Exc("RuntimeError", "CUDA error: out of memory")
FileNotFound == Exc("FileNotFoundError", "No such file or directory")
InvalidSchema == Exc("InvalidSchema", "No connection adapters were found for the url")

\* What a call gives back: a value, or an exception raised to the caller.
Return(v) == [raised |-> None, value |-> v]
Raise(e) == [raised |-> Some(e), value |-> 0]

\* ------------------------------------------------------- the detector

Max2(a, b) == IF a >= b THEN a ELSE b

\* One detected box: its class and its confidence.
Box(cls, conf) == [cls |-> cls, conf |-> conf]

\* The test of the inner loop taking a box at the threshold too.
IsPersonAtThreshold(box) == box.cls = PersonClass /\ box.conf >= ConfThreshold

\* box.cls.item() == 0 and box.conf.item() > 0.5
IsPerson(box) == box.cls = PersonClass /\ box.conf > ConfThreshold

\* The inner loop of _detect_people_in_frame over the boxes of one result:
\* what it adds to people_count.
CountBoxes(boxes) ==
    LET n[i \in 0..Len(boxes)] ==
            IF i = 0 THEN 0
            ELSE n[i - 1] + (IF IsPerson(boxes[i]) THEN 1 ELSE 0)
    IN  n[Len(boxes)]

\* The outer loop over the results of one model invocation: a result whose
\* boxes are None adds nothing.
CountResults(results) ==
    LET n[i \in 0..Len(results)] ==
            IF i = 0 THEN 0
            ELSE n[i - 1] + (IF results[i].boxes = None THEN 0
                             ELSE CountBoxes(results[i].boxes[1]))
    IN  n[Len(results)]

\* self.model(frame): the model is missing (None is not callable), the
\* invocation raises, or it gives its results.
InvokeModel(m, f) ==
    IF m = None THEN Raise(ModelMissing)
    ELSE IF f.raises THEN Raise(ModelError)
    ELSE Return(f.results)

\* _detect_people_in_frame with the except clause left out.
DetectPeopleInFramePropagating(m, f) ==
    LET r == InvokeModel(m, f)
    IN  IF r.raised # None THEN Raise(r.raised[1])
        ELSE Return(CountResults(r.value))

\* _detect_people_in_frame: any exception of the body is logged and 0 returned.
DetectPeopleInFrame(m, f) ==
    LET r == InvokeModel(m, f)
    IN  IF r.raised # None THEN Return(0)
        ELSE Return(CountResults(r.value))

\* ------------------------------------------------------- the sampler

\* int(x) of the quotient a / b, b > 0: truncation toward zero.
TruncDiv(a, b) == IF a >= 0 THEN a \div b ELSE -((-a) \div b)

\* round(x) of the quotient a / b, b > 0: to the nearest integer, a tie to the
\* even one.
RoundDiv(a, b) ==
    LET q == a \div b
        r == a % b
    IN  IF 2 * r < b THEN q
        ELSE IF 2 * r > b THEN q + 1
        ELSE IF q % 2 = 0 THEN q ELSE q + 1

\* frame_interval with round() in place of int().
FrameIntervalRounded(fps) == Max2(1, RoundDiv(fps * SamplePeriodSeconds, 100))

\* frame_interval = max(1, int(fps * 2)), fps in hundredths
FrameInterval(fps) == Max2(1, TruncDiv(fps * SamplePeriodSeconds, 100))

\* What one run of _count_people_in_frames leaves: its local variables and the
\* lines it logged at debug level, one per sampled frame.
SamplerState(interval) ==
    [frame_interval |-> interval, max_people_count |-> 0, frame_count |-> 0,
     log |-> <<>>, raised |-> None]

\* The aggregation step with the sum in place of the maximum.
AggregateSum(max_people_count, people_in_frame) == max_people_count + people_in_frame

\* max_people_count = max(max_people_count, people_in_frame)
Aggregate(max_people_count, people_in_frame) == Max2(max_people_count, people_in_frame)

\* if frame_count % frame_interval == 0, sampling the frame after each
\* multiple instead.
IsSampledOffByOne(frame_count, frame_interval) == frame_count % frame_interval = 1 % frame_interval

\* if frame_count % frame_interval == 0
IsSampled(frame_count, frame_interval) == frame_count % frame_interval = 0

\* The while loop of _count_people_in_frames over the frames the capture
\* yields: cap.read() gives the next frame, reports the end of the stream
\* (the frames are exhausted) or raises. after[i] is the loop's state after
\* the i-th iteration; an iteration that raised ends the loop.
SampleLoop(m, frames, s0) ==
    LET after[i \in 0..Len(frames)] ==
            IF i = 0 THEN s0
            ELSE LET s == after[i - 1]
                 IN  IF s.raised # None THEN s
                     ELSE LET f == frames[s.frame_count + 1]
                          IN  IF f.unreadable THEN [s EXCEPT !.raised = Some(ReadError)]
                              ELSE IF IsSampled(s.frame_count, s.frame_interval)
                              THEN LET d == DetectPeopleInFrame(m, f)
                                   IN  IF d.raised # None
                                       THEN [s EXCEPT !.raised = d.raised]
                                       ELSE [s EXCEPT
                                                !.max_people_count = Aggregate(@, d.value),
                                                !.log = Append(@, [pos |-> s.frame_count,
                                                                   people |-> d.value]),
                                                !.frame_count = @ + 1]
                              ELSE [s EXCEPT !.frame_count = @ + 1]
    IN  after[Len(frames)]

\* _count_people_in_frames: the capture is opened, the stride computed from
\* its frame rate, the frames looped over; every exception is logged and
\* raised again.
CountPeopleInFrames(m, video) ==
    IF ~video.opens THEN [SamplerState(0) EXCEPT !.raised = Some(CouldNotOpen)]
    ELSE SampleLoop(m, video.frames, SamplerState(FrameInterval(video.fps)))

\* ------------------------------------------------------- inputs

\* S: the sequences over S of length at most n.
SeqsUpTo(S, n) == UNION {[1..k -> S] : k \in 0..n}

\* A person below, at and above the threshold, and a confident detection of
\* another class.
ConfValues == {40, 50, 51}
Boxes == {Box(PersonClass, f) : f \in ConfValues} \cup {Box(1, 90)}
Results == {[boxes |-> None]} \cup {[boxes |-> Some(bs)] : bs \in SeqsUpTo(Boxes, MaxBoxes)}

\* What the model does on one frame.
ModelRaises == [unreadable |-> FALSE, raises |-> TRUE, results |-> <<>>]
ModelGives(results) == [unreadable |-> FALSE, raises |-> FALSE, results |-> results]
\* A frame cap.read() raises on.
Unreadable == [unreadable |-> TRUE, raises |-> FALSE, results |-> <<>>]

DetectorFrames == {ModelRaises} \cup {ModelGives(rs) : rs \in SeqsUpTo(Results, MaxResults)}

\* A frame showing k people at confidence 0.9, and one showing one person at 0.4.
Crowd(k) == ModelGives(<<[boxes |-> Some([i \in 1..k |-> Box(PersonClass, 90)])]>>)
Faint == ModelGives(<<[boxes |-> Some(<<Box(PersonClass, 40)>>)]>>)
SampleFrames == {Unreadable, ModelRaises, Faint} \cup {Crowd(k) : k \in 0..MaxPeople}

Video(opens, fps, frames) == [opens |-> opens, fps |-> fps, frames |-> frames]
SampleFps == {-100, 0, 75, 100, 175}
Videos ==
    {Video(FALSE, 0, <<>>)}
    \cup {Video(TRUE, fps, fs) : fps \in SampleFps, fs \in SeqsUpTo(SampleFrames, MaxFrames)}

Models == {None, Some("yolo11n.pt")}

\* ------------------------------------------------------- the ledger

\* datetime.utcnow() read by job j's task at the named step.
UtcNow(j, step) == <<"utcnow", j, step>>

\* VideoAnalysis(job_id=..., video_id=..., s3_url=..., status="processing",
\* created_at=datetime.utcnow(), created_by=user_id): the other columns are
\* nullable and left unset.
\* status = Column(String, nullable=False, default="pending"): the value of
\* the column in a row inserted without one.
StatusDefault == "pending"

\* A VideoAnalysis row as inserted: the columns the constructor was given,
\* the default for a status it was not given, the nullable columns it was not
\* given left null.
VideoAnalysis(job_id, video_id, s3_url, status, created_at, created_by) ==
    [job_id |-> job_id, video_id |-> video_id, s3_url |-> s3_url,
     people_count |-> None,
     status |-> IF status = None THEN StatusDefault ELSE status[1],
     created_at |-> created_at, completed_at |-> None,
     error_message |-> None, created_by |-> created_by]

\* The initial record built without a status.
InitialRecordStatusOmitted(job_id, video_id, s3_url, user_id) ==
    VideoAnalysis(job_id, video_id, s3_url, None,
                  Some(UtcNow(job_id, "created")), user_id)

\* analysis = VideoAnalysis(job_id=job_id, video_id=video_id, s3_url=s3_url,
\*     status="processing", created_at=datetime.utcnow(), created_by=user_id)
InitialRecord(job_id, video_id, s3_url, user_id) ==
    VideoAnalysis(job_id, video_id, s3_url, Some("processing"),
                  Some(UtcNow(job_id, "created")), user_id)

\* The success update writing the count and leaving the status alone.
CompletedRecordStatusKept(result, people_count) ==
    [result EXCEPT !.people_count = Some(people_count),
                   !.completed_at = Some(UtcNow(result.job_id, "completed"))]

\* The success update with created_at stamped again.
CompletedRecordRestamped(result, people_count) ==
    [result EXCEPT !.people_count = Some(people_count),
                   !.status = "completed",
                   !.created_at = Some(UtcNow(result.job_id, "completed")),
                   !.completed_at = Some(UtcNow(result.job_id, "completed"))]

\* The success update made with the count as it is before the frames are
\* looped over.
CompletedRecordBeforeSampling(result, people_count) ==
    [result EXCEPT !.people_count = Some(0),
                   !.status = "completed",
                   !.completed_at = Some(UtcNow(result.job_id, "completed"))]

\* result.people_count = people_count; result.status = "completed";
\* result.completed_at = datetime.utcnow()
CompletedRecord(result, people_count) ==
    [result EXCEPT !.people_count = Some(people_count),
                   !.status = "completed",
                   !.completed_at = Some(UtcNow(result.job_id, "completed"))]

\* The failure update storing the exception's type in place of str(e).
FailedRecordTypeName(result, e) ==
    [result EXCEPT !.status = "failed",
                   !.error_message = Some(e.type),
                   !.completed_at = Some(UtcNow(result.job_id, "failed"))]

\* result.status = "failed"; result.error_message = str(e);
\* result.completed_at = datetime.utcnow()
FailedRecord(result, e) ==
    [result EXCEPT !.status = "failed",
                   !.error_message = Some(Str(e)),
                   !.completed_at = Some(UtcNow(result.job_id, "failed"))]

\* get_db_session without the rollback: the row a failed commit was writing
\* stays as the session left it.
NotRolledBack(before, attempted) == attempted

\* get_db_session on an exception: session.rollback(), so the row stays as it
\* was before the session touched it.
RolledBack(before, attempted) == before

\* ------------------------------------------------------- the acquirer

\* A locator as urlparse splits it.
Url(scheme, netloc, path) == <<scheme, netloc, path>>
UrlParse(url) == [scheme |-> url[1], netloc |-> url[2], path |-> url[3]]

\* The schemes requests.get has a connection adapter for; for a URL of any
\* other scheme it raises InvalidSchema without sending anything.
HttpSchemes == {"http", "https"}

\* What can go wrong in _download_video once the temporary file exists.
DownloadFailures(s3_client, url) ==
    IF UrlParse(url).scheme = "s3"
    THEN IF s3_client = None THEN {S3NotInitialized}
         ELSE {NoSuchKey, AccessDenied, NoCredentials}
    ELSE IF UrlParse(url).scheme \in HttpSchemes THEN {HttpStatusError, TransportError}
    ELSE {InvalidSchema}

\* Whether _download_video can return its path: not for an s3 URI without a
\* client, nor for a URL requests.get has no adapter for.
CanDownload(s3_client, url) ==
    IF UrlParse(url).scheme = "s3" THEN s3_client # None
    ELSE UrlParse(url).scheme \in HttpSchemes

\* What the other end does with one transfer: the object has size chunks,
\* delivered of them arrive, and the transfer then ends, or fails with error.
\* download_file and iter_content end without an exception only when the
\* whole object arrived; raise_for_status raises before any chunk is read.
Transfer(size, delivered, error) == [size |-> size, delivered |-> delivered, error |-> error]
Transfers(s3_client, url) ==
    {Transfer(n, n, None) : n \in 1..MaxChunks}
    \cup {t \in {Transfer(n, k, Some(e)) : n \in 1..MaxChunks, k \in 0..(MaxChunks - 1),
                    e \in DownloadFailures(s3_client, url) \ {S3NotInitialized}} :
             /\ t.delivered < t.size
             /\ t.error[1] = HttpStatusError => t.delivered = 0}

\* The temporary file: the chunks it holds and whether it is closed.
TempFile(chunks, closed) == [chunks |-> chunks, closed |-> closed]

\* What _download_video gives its caller, the temporary file it leaves (None
\* when it made none) and whether it sent a request for the object.
Downloaded(raised, path, file, sent) ==
    [raised |-> raised, path |-> path, file |-> file, sent |-> sent]

\* The download whose last except clause logs the exception and goes on to
\* return the path.
DownloadVideoFileSwallowing(s3_client, url, transfer) ==
    LET parsed_url == UrlParse(url)
    IN  IF parsed_url.scheme = "s3" /\ s3_client = None
        THEN Downloaded(Some(S3NotInitialized), None, Some(TempFile(0, TRUE)), FALSE)
        ELSE Downloaded(None, Some("tmp.mp4"), Some(TempFile(transfer.delivered, TRUE)), TRUE)

\* _download_video: the temporary file is created and closed at once, before
\* the scheme is looked at; an s3 URI needs the client and is fetched by
\* download_file; any other URL is handed to requests.get, which refuses a
\* scheme it has no adapter for and otherwise sends the request, then
\* raise_for_status and the loop that writes the chunks inside a with
\* statement, which closes the file however the loop ends. Every except
\* clause raises the exception again; the path is returned only when nothing
\* was raised.
DownloadVideoFile(s3_client, url, transfer) ==
    LET parsed_url == UrlParse(url)
        temp_file == TempFile(0, TRUE)
    IN  IF parsed_url.scheme = "s3"
        THEN IF s3_client = None
             THEN Downloaded(Some(S3NotInitialized), None, Some(temp_file), FALSE)
             ELSE IF transfer.error # None
             THEN Downloaded(transfer.error, None,
                             Some(TempFile(transfer.delivered, TRUE)), TRUE)
             ELSE Downloaded(None, Some("tmp.mp4"),
                             Some(TempFile(transfer.delivered, TRUE)), TRUE)
        ELSE IF parsed_url.scheme \notin HttpSchemes
             THEN Downloaded(Some(InvalidSchema), None, Some(temp_file), FALSE)
             ELSE IF transfer.error # None /\ transfer.delivered = 0
             THEN Downloaded(transfer.error, None, Some(temp_file), TRUE)
             ELSE IF transfer.error # None
             THEN Downloaded(transfer.error, None,
                             Some(TempFile(transfer.delivered, TRUE)), TRUE)
             ELSE Downloaded(None, Some("tmp.mp4"),
                             Some(TempFile(transfer.delivered, TRUE)), TRUE)

\* The cleanup written after the body instead of in a finally clause: skipped
\* when the body raised.
ReleaseUnlessRaised(fs, temp_video_path, result) ==
    IF result.raised # None THEN fs
    ELSE IF temp_video_path # None /\ temp_video_path[1] \in fs
    THEN fs \ {temp_video_path[1]} ELSE fs

\* What a cleanup leaves: the exception it raised, if any, and the files.
Cleaned(raised, fs) == [raised |-> raised, files |-> fs]

\* os.remove(path): the file is removed, or FileNotFoundError is raised.
OsRemove(fs, path) ==
    IF path \in fs THEN Cleaned(None, fs \ {path}) ELSE Cleaned(Some(FileNotFound), fs)

\* The cleanup without the test that the file exists.
CleanupUnguarded(fs, temp_video_path) ==
    IF temp_video_path # None THEN OsRemove(fs, temp_video_path[1]) ELSE Cleaned(None, fs)

\* if temp_video_path and os.path.exists(temp_video_path):
\*     os.remove(temp_video_path)
Cleanup(fs, temp_video_path) ==
    IF temp_video_path # None /\ temp_video_path[1] \in fs
    THEN OsRemove(fs, temp_video_path[1])
    ELSE Cleaned(None, fs)

\* The finally clause of _process_video_sync, which runs the cleanup whether
\* the body returned or raised: the files it leaves.
Release(fs, temp_video_path, result) == Cleanup(fs, temp_video_path).files

\* What _count_people_in_frames gives _process_video_sync, over every video
\* the downloaded file can hold: the count it returns or the exception it
\* raises.
Outcome(s) == IF s.raised # None THEN Raise(s.raised[1]) ELSE Return(s.max_people_count)
OutcomesWithModel == {Outcome(CountPeopleInFrames(Some("yolo11n.pt"), v)) : v \in Videos}
OutcomesWithoutModel == {Outcome(CountPeopleInFrames(None, v)) : v \in Videos}
SamplerOutcomes(m) == IF m = None THEN OutcomesWithoutModel ELSE OutcomesWithModel

\* ------------------------------------------------------- state

VARIABLES
    started,    \* startup_event has run
    model,      \* video_processor.model
    s3_client,  \* video_processor.s3_client
    model_path, \* video_processor.model_path: None while the attribute is
                \* not set
    startup_error, \* the exception startup_event caught from
                \* video_processor.initialize(), None when there was none
    pc,         \* per submission, named by its place in the order of arrival,
                \* which stands for the job id the handler generates for it:
                \* where its request or its background task stands
    task,       \* per job id: the arguments of process_video_task
    db,         \* the video_analyses table: per job id, None or its row
    queue,      \* the executor's work queue: jobs waiting for a worker thread
    files,      \* the temporary files that exist, named by the job that made them
    frame,      \* per job id: the local variables of its task and of its
                \* _process_video_sync call, and the exception the task let
                \* escape to the caller awaiting it
    response,   \* per submission: None, or the request body and what
                \* POST /analyze-video answered
    call        \* one invocation of a function of the video processor, or the
                \* latest GET /status/{job_id}: its arguments and, once it has
                \* returned, what it returned

vars == <<started, model, s3_client, model_path, startup_error, pc, task, db, queue, files,
          frame, response, call>>
processor == <<started, model, s3_client, model_path, startup_error>>

NoCall == [fn |-> "none", done |-> TRUE]
Invocation(fn, m, arg) == [fn |-> fn, model |-> m, arg |-> arg, done |-> FALSE]

NoTask == [job_id |-> 0, video_id |-> None, s3_url |-> None, user_id |-> None]
NoFrame == [temp_video_path |-> None, result |-> Return(0), people_count |-> None,
            e |-> None, db_error |-> None, escaped |-> None]

\* VideoProcessor.__init__ and the module's globals, before startup.
InitApp ==
    /\ started = FALSE
    /\ model = None
    /\ s3_client = None
    /\ model_path = None
    /\ startup_error = None
    /\ pc = [j \in JobIds |-> "unsubmitted"]
    /\ task = [j \in JobIds |-> NoTask]
    /\ db = [j \in JobIds |-> None]
    /\ queue = <<>>
    /\ files = {}
    /\ frame = [j \in JobIds |-> NoFrame]
    /\ response = [j \in JobIds |-> None]

\* ------------------------------------------------------- startup

\* The jobs a worker thread of the executor is running.
Running == {k \in DOMAIN pc : pc[k] \in {"sampling", "finally"}}

\* The pipeline run by the event loop itself: while a job is in it, the loop
\* serves nothing else.
EventLoopBusyWhileRunning == Running = {}

\* count_people_in_video hands _process_video_sync to the executor with
\* run_in_executor and awaits it: the event loop stays free to run handlers
\* and other tasks whatever the worker threads do.
EventLoopFree == TRUE

\* startup_event: video_processor.initialize() loads the model, moves it to
\* the device, sets model_path and then builds the S3 client; an exception of
\* the load or of the move is raised to startup_event, which logs it and lets
\* startup go on (model_path is then not set and the S3 client never built);
\* an exception building the S3 client is logged inside
\* _initialize_s3_client.
StartupEvent ==
    /\ ~started
    /\ started' = TRUE
    /\ \E loaded \in BOOLEAN, moved \in BOOLEAN, client \in BOOLEAN :
          /\ ~loaded => ~moved
          /\ ~moved => ~client
          /\ model' = IF loaded THEN Some("yolo11n.pt") ELSE None
          /\ model_path' = IF moved THEN Some("yolo11n.pt") ELSE None
          /\ s3_client' = IF client THEN Some("s3") ELSE None
          /\ startup_error' = IF ~loaded THEN Some(ModelLoadError)
                              ELSE IF ~moved THEN Some(DeviceError)
                              ELSE None
    /\ UNCHANGED <<pc, task, db, queue, files, frame, response, call>>

\* ------------------------------------------------------- the request

\* A locator's text is scheme "://" netloc path: netloc is a sequence of
\* characters, path is "" or starts with "/". These are the characters of the
\* model's locators that the class [a-zA-Z0-9.\-_] holds; " " is outside it.
BucketChars == {"b", "1", "-"}

\* re.match(r'^s3://[a-zA-Z0-9.\-_]+/.*', v)
MatchesS3Pattern(v) ==
    /\ v[1] = "s3"
    /\ Len(v[2]) >= 1
    /\ \A i \in 1..Len(v[2]) : v[2][i] \in BucketChars
    /\ v[3] # ""

\* re.match(r'^https?://.*', v)
MatchesHttpsPattern(v) == v[1] \in {"http", "https"}

\* A validator that lets every locator through.
ValidateAnyUrl(v) == TRUE

\* VideoRequest.validate_s3_url: whether the value is returned (TRUE) or
\* ValueError raised (FALSE).
ValidateS3Url(v) == MatchesS3Pattern(v) \/ MatchesHttpsPattern(v)

\* The body of a POST /analyze-video: s3_url, video_id, user.
Request(s3_url, video_id, user) == [s3_url |-> s3_url, video_id |-> video_id, user |-> user]

\* The requests that reach process_video_task, and one without a user.
Requests ==
    {Request(Url("s3", <<"b", "1">>, "/a.mp4"), None, Some(7)),
     Request(Url("https", <<"b">>, "/a.mp4"), Some("video-1"), Some(7)),
     Request(Url("s3", <<"b", "1">>, "/a.mp4"), Some("video-1"), None)}

\* Requests with a locator of another scheme, with a character outside the
\* class in the bucket, without a key, and one with the user 0.
OtherRequests ==
    {Request(Url("ftp", <<"b">>, "/a.mp4"), None, Some(7)),
     Request(Url("s3", <<"b", " ">>, "/a.mp4"), None, Some(7)),
     Request(Url("s3", <<"b", "1">>, ""), None, Some(7)),
     Request(Url("https", <<"b">>, "/a.mp4"), None, Some(0))}

Submissions == Requests \cup OtherRequests

\* user_id = request.user if request.user else None
UserId(request) ==
    IF request.user # None /\ request.user[1] # 0 THEN request.user ELSE None

\* The check of the user left out.
UserIdNeverMissing(user_id) == FALSE

\* if not user_id
UserIdMissing(user_id) == user_id = None

\* What POST /analyze-video answered to a request.
Answer(request, status_code, body) ==
    [request |-> request, status_code |-> status_code, body |-> body]

\* validation_exception_handler: 422
ValidationError == [detail |-> "Validation error"]
\* HTTPException(status_code=400, detail="User ID is required for video analysis")
UserRequired == [detail |-> "User ID is required for video analysis"]
\* VideoResponse(job_id=job_id, status="processing", message="Video analysis started")
VideoResponse(job_id) ==
    [job_id |-> job_id, status |-> "processing", message |-> "Video analysis started"]

\* The handler answering only once the task it started has ended.
ReturnedAfterTask(answer) == None

\* return response, with the task only added to background_tasks: the answer
\* is on its way before the task's first step.
Returned(answer) == Some(answer)

\* POST /analyze-video. A body whose s3_url fails the validator is answered
\* 422 before the handler runs. analyze_video generates a job id; a request
\* without a user is answered 400; otherwise process_video_task is added as a
\* background task and the request answered.
AnalyzeVideo(j) ==
    /\ started
    /\ EventLoopFree
    /\ pc[j] = "unsubmitted"
    /\ \A k \in DOMAIN pc : k < j => pc[k] # "unsubmitted"
    /\ \E request \in Submissions :
          IF ~ValidateS3Url(request.s3_url)
          THEN /\ pc' = [pc EXCEPT ![j] = "invalid"]
               /\ response' = [response EXCEPT ![j] =
                     Some(Answer(request, 422, ValidationError))]
               /\ UNCHANGED task
          ELSE IF UserIdMissing(UserId(request))
          THEN /\ pc' = [pc EXCEPT ![j] = "rejected"]
               /\ response' = [response EXCEPT ![j] =
                     Some(Answer(request, 400, UserRequired))]
               /\ UNCHANGED task
          ELSE /\ pc' = [pc EXCEPT ![j] = "scheduled"]
               /\ response' = [response EXCEPT ![j] =
                     Returned(Answer(request, 200, VideoResponse(j)))]
               /\ task' = [task EXCEPT ![j] =
                     [job_id |-> j,
                      video_id |-> IF request.video_id # None THEN request.video_id[1]
                                   ELSE "uuid4",
                      s3_url |-> request.s3_url,
                      user_id |-> UserId(request)]]
    /\ UNCHANGED <<processor, db, queue, files, frame, call>>

\* ------------------------------------------------------- the background task

\* The task going on to the pipeline after the initial record failed.
OnCreateRecordErrorContinue == "queued"

\* except Exception as e: ... return  # Exit early if we can't even create
\* the initial record
OnCreateRecordError == "done"

\* The success update outside the try block: its exception ends the task.
OnCompletedWriteErrorEnd == "done"

\* The success update is inside the second try block: its exception is
\* handled by that block's except clause, like one of the pipeline.
OnCompletedWriteError == "failing"

\* The failure update tried again after it failed.
OnFailedWriteErrorRetry == "failing"

\* except Exception as db_error: two lines are logged and the task ends.
OnFailedWriteError == "done"

\* The failure update without a try block of its own: db_error leaves the task.
PropagatedDbError(db_error) == Some(db_error)

\* except Exception as db_error: what process_video_task raises to the
\* caller that awaits it: nothing.
LoggedDbError(db_error) == None

\* process_video_task, first try block: the initial row is added and
\* committed, and the task goes on to count_people_in_video, which hands
\* _process_video_sync to the executor; or the session or the commit raises,
\* which is logged, and the task returns.
CreateRecord(j) ==
    /\ pc[j] = "scheduled"
    /\ EventLoopFree
    /\ \E committed \in BOOLEAN :
          LET row == Some(InitialRecord(task[j].job_id, task[j].video_id,
                                        task[j].s3_url, task[j].user_id))
          IN  IF committed
              THEN /\ db' = [db EXCEPT ![j] = row]
                   /\ queue' = Append(queue, j)
                   /\ pc' = [pc EXCEPT ![j] = "queued"]
              ELSE /\ db' = [db EXCEPT ![j] = RolledBack(db[j], row)]
                   /\ pc' = [pc EXCEPT ![j] = OnCreateRecordError]
                   /\ UNCHANGED queue
    /\ UNCHANGED <<processor, task, files, frame, response, call>>

\* One thread started for every call, however many are running.
WorkerAlwaysFree == TRUE

\* ThreadPoolExecutor(max_workers=2): a call is taken from the queue when
\* fewer than max_workers calls are running.
WorkerFree == Cardinality(Running) < MaxWorkers

\* A free worker thread takes the oldest queued call of _process_video_sync
\* and runs _download_video: the temporary file is created and closed, then
\* the download either completes and the path is returned and assigned to
\* temp_video_path, or raises, which is logged and raised again.
DownloadVideo(j) ==
    /\ pc[j] = "queued"
    /\ queue # <<>> /\ Head(queue) = j
    /\ WorkerFree
    /\ queue' = Tail(queue)
    /\ files' = files \cup {j}
    /\ \/ /\ CanDownload(s3_client, task[j].s3_url)
          /\ frame' = [frame EXCEPT ![j].temp_video_path = Some(j)]
          /\ pc' = [pc EXCEPT ![j] = "sampling"]
       \/ /\ \E err \in DownloadFailures(s3_client, task[j].s3_url) :
                frame' = [frame EXCEPT ![j].result = Raise(err)]
          /\ pc' = [pc EXCEPT ![j] = "finally"]
    /\ UNCHANGED <<processor, task, db, response, call>>

\* people_count = self._count_people_in_frames(temp_video_path), on whatever
\* video the file holds.
CountFrames(j) ==
    /\ pc[j] = "sampling"
    /\ \E o \in SamplerOutcomes(model) : frame' = [frame EXCEPT ![j].result = o]
    /\ pc' = [pc EXCEPT ![j] = "finally"]
    /\ UNCHANGED <<processor, task, db, queue, files, response, call>>

\* The finally clause of _process_video_sync, after which the worker is free
\* and the task resumes from its await with the count or with the exception.
Finally(j) ==
    /\ pc[j] = "finally"
    /\ files' = Release(files, frame[j].temp_video_path, frame[j].result)
    /\ IF frame[j].result.raised # None
       THEN /\ frame' = [frame EXCEPT ![j].e = frame[j].result.raised]
            /\ pc' = [pc EXCEPT ![j] = "failing"]
       ELSE /\ frame' = [frame EXCEPT ![j].people_count = Some(frame[j].result.value)]
            /\ pc' = [pc EXCEPT ![j] = "returned"]
    /\ UNCHANGED <<processor, task, db, queue, response, call>>

\* The first row of the table, whatever job_id is asked for.
FirstKey(job_id) == 1

\* session.get(VideoAnalysis, job_id): the row read, and then written, is the
\* one whose key is the task's own job_id.
Key(job_id) == job_id

\* process_video_task, the success update: the row is read (a missing row is
\* logged and the task returns), updated and committed; an exception of the
\* session or of the commit is caught by the task's except clause.
WriteCompleted(j) ==
    /\ pc[j] = "returned"
    /\ EventLoopFree
    /\ LET k == Key(task[j].job_id)
       IN  \E committed \in BOOLEAN :
             IF committed
             THEN /\ db' = [db EXCEPT ![k] =
                        IF db[k] = None THEN None
                        ELSE Some(CompletedRecord(db[k][1], frame[j].people_count[1]))]
                  /\ pc' = [pc EXCEPT ![j] = "done"]
                  /\ UNCHANGED frame
             ELSE /\ db' = [db EXCEPT ![k] =
                        IF db[k] = None THEN None
                        ELSE RolledBack(db[k],
                                 Some(CompletedRecord(db[k][1], frame[j].people_count[1])))]
                  /\ frame' = [frame EXCEPT ![j].e = Some(DbError)]
                  /\ pc' = [pc EXCEPT ![j] = OnCompletedWriteError]
    /\ UNCHANGED <<processor, task, queue, files, response, call>>

\* process_video_task, the except clause: the row is read and, when there is
\* one, marked failed with str(e) and committed; an exception of the session
\* or of the commit is logged as db_error and nothing else is done.
WriteFailed(j) ==
    /\ pc[j] = "failing"
    /\ EventLoopFree
    /\ LET k == Key(task[j].job_id)
       IN  \E committed \in BOOLEAN :
             IF committed
             THEN /\ db' = [db EXCEPT ![k] =
                        IF db[k] = None THEN None
                        ELSE Some(FailedRecord(db[k][1], frame[j].e[1]))]
                  /\ pc' = [pc EXCEPT ![j] = "done"]
                  /\ UNCHANGED frame
             ELSE /\ db' = [db EXCEPT ![k] =
                        IF db[k] = None THEN None
                        ELSE RolledBack(db[k], Some(FailedRecord(db[k][1], frame[j].e[1])))]
                  /\ frame' = [frame EXCEPT ![j].db_error = Some(DbError),
                                            ![j].escaped = LoggedDbError(DbError)]
                  /\ pc' = [pc EXCEPT ![j] = OnFailedWriteError]
    /\ UNCHANGED <<processor, task, queue, files, response, call>>

Init == InitApp /\ call = NoCall

Next ==
    \/ StartupEvent
    \/ \E j \in JobIds :
          \/ AnalyzeVideo(j)
          \/ CreateRecord(j)
          \/ DownloadVideo(j)
          \/ CountFrames(j)
          \/ Finally(j)
          \/ WriteCompleted(j)
          \/ WriteFailed(j)

Spec == Init /\ [][Next]_vars

\* The event loop runs every scheduled task and resumes every task whose
\* await has completed; a worker thread of the executor that is free takes
\* the oldest queued call, and a call a worker runs goes on to its end.
Fairness ==
    \A j \in JobIds :
        /\ WF_vars(CreateRecord(j))
        /\ WF_vars(DownloadVideo(j))
        /\ WF_vars(CountFrames(j))
        /\ WF_vars(Finally(j))
        /\ WF_vars(WriteCompleted(j))
        /\ WF_vars(WriteFailed(j))

SpecLive == Init /\ [][Next]_vars /\ Fairness

\* ------------------------------------------------------- the worker pool

\* One job more than can be held by max_workers threads and the bound on jobs.
PoolJobIds == 1..(Max2(MaxJobs, MaxWorkers) + 1)

InitPool ==
    /\ started = FALSE
    /\ model = None
    /\ s3_client = None
    /\ model_path = None
    /\ startup_error = None
    /\ pc = [j \in PoolJobIds |-> "unsubmitted"]
    /\ task = [j \in PoolJobIds |-> NoTask]
    /\ db = [j \in PoolJobIds |-> None]
    /\ queue = <<>>
    /\ files = {}
    /\ frame = [j \in PoolJobIds |-> NoFrame]
    /\ response = [j \in PoolJobIds |-> None]
    /\ call = NoCall

NextPool ==
    \/ StartupEvent
    \/ \E j \in PoolJobIds :
          \/ AnalyzeVideo(j)
          \/ CreateRecord(j)
          \/ DownloadVideo(j)
          \/ CountFrames(j)
          \/ Finally(j)
          \/ WriteCompleted(j)
          \/ WriteFailed(j)

\* More jobs submitted than the executor has worker threads.
SpecPool == InitPool /\ [][NextPool]_vars

\* A step of the background tasks or of the worker threads.
TaskStep ==
    \E j \in PoolJobIds :
        \/ CreateRecord(j)
        \/ DownloadVideo(j)
        \/ CountFrames(j)
        \/ Finally(j)
        \/ WriteCompleted(j)
        \/ WriteFailed(j)

\* The event loop and the executor's threads do not all stop while a task
\* is ready to resume or a call is ready to be run or to go on: some ready
\* step is taken.
FairnessPool == WF_vars(TaskStep)

SpecPoolLive == InitPool /\ [][NextPool]_vars /\ FairnessPool

\* ------------------------------------------------------- the status query

\* The job_id of a GET /status/{job_id}: the form of its text, and the job
\* whose uuid the text spells (0: a uuid no job was given). The keys of the
\* table are str(uuid.uuid4()): lower case, with hyphens.
JobIdText(form, job) == [form |-> form, job |-> job]

\* The forms uuid.UUID(job_id) accepts: besides the canonical one, among
\* others the same digits in upper case.
UuidForms == {"canonical", "uppercase"}

\* A format check that lets every text through.
IsAnyText(job_id) == TRUE

\* uuid.UUID(job_id) does not raise ValueError
IsUuid(job_id) == job_id.form \in UuidForms

\* session.get(VideoAnalysis, job_id): the row whose key is that text.
SessionGet(table, job_id) ==
    IF job_id.form = "canonical" /\ job_id.job \in JobIds THEN table[job_id.job]
    ELSE None

\* response_data with the count defaulted to 0.
ResponseDataCountDefaulted(result) ==
    [job_id |-> result.job_id, video_id |-> result.video_id, status |-> result.status,
     people_count |-> IF result.people_count = None THEN Some(0) ELSE result.people_count,
     created_at |-> result.created_at, completed_at |-> result.completed_at,
     error_message |-> result.error_message]

\* response_data = {"job_id": result.job_id, ...}
ResponseData(result) ==
    [job_id |-> result.job_id, video_id |-> result.video_id, status |-> result.status,
     people_count |-> result.people_count,
     created_at |-> result.created_at, completed_at |-> result.completed_at,
     error_message |-> result.error_message]

StatusReply(status_code, body) == [status_code |-> status_code, body |-> body]
\* HTTPException(status_code=400, detail="Invalid job ID format")
InvalidJobId == StatusReply(400, [detail |-> "Invalid job ID format"])
\* HTTPException(status_code=404, detail="Job not found")
JobNotFound == StatusReply(404, [detail |-> "Job not found"])
\* HTTPException(status_code=500, detail=f"Internal server error: {str(e)}")
InternalServerError == StatusReply(500, [detail |-> "Internal server error: " \o Str(DbError)])

\* get_job_status: the format check, then a session (which may raise), the
\* read, and the answer.
GetJobStatus(table, job_id, session_ok) ==
    IF ~IsUuid(job_id) THEN InvalidJobId
    ELSE IF ~session_ok THEN InternalServerError
    ELSE LET result == SessionGet(table, job_id)
         IN  IF result = None THEN JobNotFound
             ELSE StatusReply(200, ResponseData(result[1]))

\* The texts asked for: each job's key, a uuid that is no job's key, the key
\* of job 1 in upper case, and a text that is no uuid.
StatusJobIds ==
    {JobIdText("canonical", k) : k \in 0..MaxJobs}
    \cup {JobIdText("uppercase", 1), JobIdText("garbage", 0)}

\* GET /status/{job_id}: the session only reads, and is closed without a
\* commit.
StatusRequest(job_id) ==
    /\ started
    /\ EventLoopFree
    /\ \E session_ok \in BOOLEAN :
          call' = [fn |-> "get_job_status", arg |-> job_id, done |-> TRUE,
                   ret |-> GetJobStatus(db, job_id, session_ok)]
    /\ UNCHANGED <<processor, pc, task, db, queue, files, frame, response>>

\* hasattr(video_processor, 'model'), an attribute __init__ sets.
HasModelAttribute == TRUE

\* hasattr(video_processor, 'model_path')
HasModelPath == model_path # None

\* health_status["video_processor"]
VideoProcessorHealth ==
    IF HasModelPath
    THEN [status |-> "healthy", message |-> "Video processor initialized"]
    ELSE [status |-> "unknown", message |-> "Video processor status unclear"]

\* GET /health: the database is tried (test_database_connection gives
\* success or not), the video processor looked at, and both reported.
HealthCheck ==
    /\ started
    /\ EventLoopFree
    /\ \E db_success \in BOOLEAN :
          call' = [fn |-> "health_check", done |-> TRUE,
                   ret |-> [status |-> "healthy",
                            database |-> [status |-> IF db_success THEN "healthy"
                                                     ELSE "unhealthy"],
                            video_processor |-> VideoProcessorHealth]]
    /\ UNCHANGED <<processor, pc, task, db, queue, files, frame, response>>

NextStatus ==
    \/ Next
    \/ \E job_id \in StatusJobIds : StatusRequest(job_id)
    \/ HealthCheck

\* The jobs' lifecycle with status requests and health checks arriving at any
\* moment.
SpecStatus == Init /\ [][NextStatus]_vars

\* ------------------------------------------------------- function calls

CallDetect ==
    /\ call.fn = "_detect_people_in_frame" /\ ~call.done
    /\ call' = [fn |-> call.fn, model |-> call.model, arg |-> call.arg, done |-> TRUE,
                ret |-> DetectPeopleInFrame(call.model, call.arg)]
    /\ UNCHANGED <<processor, pc, task, db, queue, files, frame, response>>

CallFrameInterval ==
    /\ call.fn = "frame_interval" /\ ~call.done
    /\ call' = [fn |-> call.fn, model |-> call.model, arg |-> call.arg, done |-> TRUE,
                ret |-> FrameInterval(call.arg)]
    /\ UNCHANGED <<processor, pc, task, db, queue, files, frame, response>>

CallCountPeopleInFrames ==
    /\ call.fn = "_count_people_in_frames" /\ ~call.done
    /\ call' = [fn |-> call.fn, model |-> call.model, arg |-> call.arg, done |-> TRUE,
                ret |-> CountPeopleInFrames(call.model, call.arg)]
    /\ UNCHANGED <<processor, pc, task, db, queue, files, frame, response>>

CallDownloadVideo ==
    /\ call.fn = "_download_video" /\ ~call.done
    /\ call' = [fn |-> call.fn, s3_client |-> call.s3_client, arg |-> call.arg,
                done |-> TRUE,
                ret |-> DownloadVideoFile(call.s3_client, call.arg.url, call.arg.transfer)]
    /\ UNCHANGED <<processor, pc, task, db, queue, files, frame, response>>

\* The cleanup of the finally clause, run once and then once more.
CallCleanup ==
    /\ call.fn = "cleanup" /\ ~call.done
    /\ LET once == Cleanup(call.arg.files, call.arg.temp_video_path)
       IN  call' = [fn |-> call.fn, arg |-> call.arg, done |-> TRUE,
                    ret |-> [once |-> once,
                             twice |-> Cleanup(once.files, call.arg.temp_video_path)]]
    /\ UNCHANGED <<processor, pc, task, db, queue, files, frame, response>>

\* The locators process_video_task is started with and, for calls that do
\* not come through the request handler, one of another scheme; the
\* temporary files and values of temp_video_path the cleanup can meet.
DownloadUrls == {r.s3_url : r \in Requests} \cup {Url("ftp", <<"b">>, "/a.mp4")}
S3Clients == {None, Some("s3")}
DownloadCalls ==
    {[fn |-> "_download_video", s3_client |-> c, done |-> FALSE,
      arg |-> [url |-> u, transfer |-> t]] :
         c \in S3Clients, u \in DownloadUrls,
         t \in UNION {Transfers(cc, uu) : cc \in S3Clients, uu \in DownloadUrls}}
CleanupCalls ==
    {[fn |-> "cleanup", done |-> FALSE, arg |-> [files |-> fs, temp_video_path |-> tp]] :
         fs \in SUBSET JobIds, tp \in {None} \cup {Some(j) : j \in JobIds}}

\* One call of one function of the video processor, on every input within
\* the bounds.
InitUnit ==
    /\ InitApp
    /\ call \in {Invocation("_detect_people_in_frame", m, f) : m \in Models, f \in DetectorFrames}
        \cup {Invocation("frame_interval", Some("yolo11n.pt"), fps) :
                 fps \in (-MaxFps * 100)..(MaxFps * 100)}
        \cup {Invocation("_count_people_in_frames", m, v) : m \in Models, v \in Videos}
        \cup {c \in DownloadCalls : c.arg.transfer \in Transfers(c.s3_client, c.arg.url)}
        \cup CleanupCalls

NextUnit ==
    \/ CallDetect
    \/ CallFrameInterval
    \/ CallCountPeopleInFrames
    \/ CallDownloadVideo
    \/ CallCleanup

SpecUnit == InitUnit /\ [][NextUnit]_vars

\* ------------------------------------------------------- function-level claims

SetMax(S) == CHOOSE m \in S : \A x \in S : x <= m

\* The detections of one model invocation that are a person with a confidence
\* above 0.5, each named by its result and its place among the boxes.
PersonDetections(results) ==
    UNION {{<<i, k>> : k \in {k \in 1..Len(results[i].boxes[1]) :
                                 /\ results[i].boxes[1][k].cls = 0
                                 /\ results[i].boxes[1][k].conf > 50}} :
           i \in {i \in 1..Len(results) : results[i].boxes # None}}

\* The person count of one frame: 0 when the model cannot be invoked on it.
PeopleIn(m, f) ==
    IF m = None \/ f.raises THEN 0
    ELSE Cardinality(PersonDetections(f.results))

\* The frames cap.read() yields before it first raises.
FramesRead(video) ==
    IF \E i \in 1..Len(video.frames) : video.frames[i].unreadable
    THEN (CHOOSE i \in 1..Len(video.frames) :
             /\ video.frames[i].unreadable
             /\ \A k \in 1..(i - 1) : ~video.frames[k].unreadable) - 1
    ELSE Len(video.frames)

\* The 0-indexed positions 0, k, 2k, ... below n.
Multiples(k, n) == {m * k : m \in 0..n} \cap 0..(n - 1)

CountCallDone == call.fn = "_count_people_in_frames" /\ call.done
DetectCallDone == call.fn = "_detect_people_in_frame" /\ call.done
IntervalCallDone == call.fn = "frame_interval" /\ call.done

\* C3: the count _count_people_in_frames returns is the maximum over the
\* sampled frames (positions 0, k, 2k, ... of the frames read) of the
\* per-frame person count, and 0 when no frame is sampled.
C3_PeakOverSampledFrames ==
    (CountCallDone /\ call.ret.raised = None) =>
        LET v == call.arg
            sampled == Multiples(call.ret.frame_interval, Len(v.frames))
        IN  call.ret.max_people_count =
                SetMax({0} \cup {PeopleIn(call.model, v.frames[p + 1]) : p \in sampled})

\* C3 witness: a crowd of 2 followed by a crowd of 1, both sampled: the result
\* is 2, not the sum 3, not the later 1.
C3_Witness ==
    /\ CountCallDone /\ call.ret.raised = None
    /\ call.model # None
    /\ call.arg.frames = <<Crowd(2), Crowd(1)>>
    /\ call.ret.frame_interval = 1
    /\ Len(call.ret.log) = 2
    /\ call.ret.max_people_count = 2

\* C7: the detector returns to its caller and never raises; on a frame the
\* model fails on it returns 0; a run of the sampler over frames that can all
\* be read does not raise whatever the model does, logs 0 for the frames the
\* model failed on, still samples every later frame, and returns the maximum
\* of the logged counts.
C7_DetectorNeverRaises ==
    /\ DetectCallDone =>
          /\ call.ret.raised = None
          /\ (call.model = None \/ call.arg.raises) => call.ret.value = 0
    /\ (CountCallDone /\ call.arg.opens /\ FramesRead(call.arg) = Len(call.arg.frames)) =>
          LET ret == call.ret
              frames == call.arg.frames
          IN  /\ ret.raised = None
              /\ ret.frame_count = Len(frames)
              /\ \A i \in 1..Len(ret.log) :
                    frames[ret.log[i].pos + 1].raises => ret.log[i].people = 0
              /\ {ret.log[i].pos : i \in 1..Len(ret.log)}
                    = Multiples(ret.frame_interval, Len(frames))
              /\ ret.max_people_count
                    = SetMax({0} \cup {ret.log[i].people : i \in 1..Len(ret.log)})

\* C7 witness: the model fails on the first frame, the second frame is still
\* sampled and its 2 people are the result.
C7_Witness ==
    /\ CountCallDone
    /\ call.model # None
    /\ call.arg.frames = <<ModelRaises, Crowd(2)>>
    /\ call.ret.frame_interval = 1
    /\ call.ret.raised = None
    /\ call.ret.log = <<[pos |-> 0, people |-> 0], [pos |-> 1, people |-> 2]>>
    /\ call.ret.max_people_count = 2

\* C8: for the detections the model returns on one frame, the count is the
\* number of detections of class person with a confidence strictly above 0.5.
C8_CountsPersonsAboveThreshold ==
    (DetectCallDone /\ call.model # None /\ ~call.arg.raises) =>
        /\ call.ret.raised = None
        /\ call.ret.value = Cardinality(PersonDetections(call.arg.results))

\* C8 witness: a person at exactly 0.5 and a person at 0.51: one is counted.
C8_Witness ==
    /\ DetectCallDone /\ call.model # None /\ ~call.arg.raises
    /\ call.arg.results = <<[boxes |-> Some(<<Box(0, 50), Box(0, 51)>>)]>>
    /\ call.ret.value = 1

C10_SampledPositions ==
    (CountCallDone /\ call.arg.opens) =>
        LET log == call.ret.log
            k == call.ret.frame_interval
            n == FramesRead(call.arg)
        IN  /\ {log[i].pos : i \in 1..Len(log)} = Multiples(k, n)
            /\ \A i \in 1..Len(log) : \A j \in 1..Len(log) :
                  i < j => log[i].pos < log[j].pos
            /\ n >= 1 => (Len(log) >= 1 /\ log[1].pos = 0)

\* C10 witness: 3 frames at stride 2: detection ran on positions 0 and 2.
C10_Witness ==
    /\ CountCallDone /\ call.arg.opens
    /\ Len(call.arg.frames) = 3
    /\ FramesRead(call.arg) = 3
    /\ call.ret.frame_interval = 2
    /\ Len(call.ret.log) = 2
    /\ call.ret.log[1].pos = 0 /\ call.ret.log[2].pos = 2

\* ------------------------------------------------------- job-level claims

Terminal(row) == row # None /\ row[1].status \in {"completed", "failed"}

\* The call of count_people_in_video made for job j has returned or raised.
PipelineReturned(j) == pc[j] \in {"returned", "failing"} \/ (pc[j] = "done" /\ db[j] # None)

\* C1: once a job's row has status completed or failed, no step of any task
\* changes any column of it.
C1_TerminalRowNeverChanges ==
    [][\A j \in JobIds : Terminal(db[j]) => db'[j] = db[j]]_vars

\* C1 witness: one job's row is terminal while another job's task still has a
\* ledger write ahead of it.
C1_Witness ==
    \E j \in JobIds, k \in JobIds :
        /\ j # k
        /\ Terminal(db[j])
        /\ db[k] # None /\ db[k][1].status = "processing"
        /\ pc[k] \in {"returned", "failing"}

\* C2: in every row, completed_at is set exactly when the status is completed
\* or failed, people_count exactly when it is completed, error_message
\* exactly when it is failed.
C2_ColumnsFollowStatus ==
    \A j \in JobIds :
        db[j] # None =>
            LET row == db[j][1]
            IN  /\ row.status \in {"processing", "completed", "failed"}
                /\ (row.completed_at # None) <=> (row.status \in {"completed", "failed"})
                /\ (row.people_count # None) <=> (row.status = "completed")
                /\ (row.error_message # None) <=> (row.status = "failed")

\* C2 witness: a completed row with a count of 0 and a failed row, side by side.
C2_Witness ==
    \E j \in JobIds, k \in JobIds :
        /\ db[j] # None /\ db[j][1].status = "completed" /\ db[j][1].people_count = Some(0)
        /\ db[k] # None /\ db[k][1].status = "failed"

\* C4: for a job whose download returned a path, the temporary file is gone
\* once the pipeline call has returned or raised, so before the row can
\* become terminal, whatever the sampler did.
C4_TempFileReleasedAfterAcquire ==
    \A j \in JobIds :
        frame[j].temp_video_path # None =>
            /\ PipelineReturned(j) => j \notin files
            /\ Terminal(db[j]) => j \notin files

\* C4 witness: the download succeeded, the sampler raised, the row is failed
\* and the file is gone.
C4_Witness ==
    \E j \in JobIds :
        /\ frame[j].temp_video_path # None
        /\ frame[j].result.raised # None
        /\ Terminal(db[j]) /\ db[j][1].status = "failed"
        /\ j \notin files

\* C5: once the pipeline call of a job has returned or raised, no temporary
\* file of that job remains, also when the download failed after the file was
\* created.
C5_NoTempFileAfterPipeline ==
    \A j \in JobIds : PipelineReturned(j) => j \notin files

\* C6: when acquisition or sampling raised for a job that has a row, and the
\* ledger write of the except clause went through, the row ends failed, its
\* error_message is the message of that error and not empty, completed_at is
\* set and people_count is absent.
C6_PipelineErrorRecorded ==
    \A j \in JobIds :
        (/\ pc[j] = "done"
         /\ db[j] # None
         /\ frame[j].result.raised # None
         /\ frame[j].db_error = None) =>
            LET row == db[j][1]
            IN  /\ row.status = "failed"
                /\ row.error_message = Some(frame[j].result.raised[1].msg)
                /\ row.error_message[1] # ""
                /\ row.completed_at # None
                /\ row.people_count = None

\* C6 witness: the object is not found, and the job ends failed with that
\* message.
C6_Witness ==
    \E j \in JobIds :
        /\ pc[j] = "done"
        /\ frame[j].result.raised = Some(NoSuchKey)
        /\ db[j] # None /\ db[j][1].status = "failed"
        /\ db[j][1].error_message = Some(NoSuchKey.msg)

\* ------------------------------------------------------- task-level claims

\* A step of process_video_task for job j can be taken.
TaskStepEnabled(j) ==
    ENABLED (CreateRecord(j) \/ DownloadVideo(j) \/ CountFrames(j) \/ Finally(j)
             \/ WriteCompleted(j) \/ WriteFailed(j))

\* The row job j's task created, as it created it.
RowAsCreated(j) ==
    Some(InitialRecord(task[j].job_id, task[j].video_id, task[j].s3_url, task[j].user_id))

\* C11: process_video_task raises nothing to its caller, whichever of the
\* initial write, the download, the sampling, the success write and the
\* failure write fail: no exception escapes at any step, and a task that has
\* ended after an error has either recorded it on the row or logged the
\* failure of the write that would have.
C11_TaskNeverRaises ==
    \A j \in JobIds :
        /\ frame[j].escaped = None
        /\ (pc[j] = "done" /\ frame[j].e # None) =>
              \/ (Terminal(db[j]) /\ db[j][1].status = "failed")
              \/ frame[j].db_error # None
        /\ (pc[j] = "done" /\ db[j] # None /\ frame[j].e = None) =>
              db[j][1].status = "completed"

\* C11 witness: the pipeline returned a count, the success write failed, the
\* failure write failed too, and the task has ended without raising.
C11_Witness ==
    \E j \in JobIds :
        /\ pc[j] = "done"
        /\ frame[j].result.raised = None
        /\ frame[j].e = Some(DbError)
        /\ frame[j].db_error = Some(DbError)
        /\ frame[j].escaped = None

\* C13: when the failure write itself fails, the row is left as the task
\* created it (status processing, no completed_at, no error_message, no
\* people_count), the task has ended without raising and has no step left.
C13_FailedFailureWriteLeavesRow ==
    \A j \in JobIds :
        frame[j].db_error # None =>
            /\ pc[j] = "done"
            /\ db[j] = RowAsCreated(j)
            /\ db[j][1].status = "processing"
            /\ db[j][1].completed_at = None
            /\ db[j][1].error_message = None
            /\ db[j][1].people_count = None
            /\ frame[j].escaped = None
            /\ ~TaskStepEnabled(j)

\* C13 witness: the download failed, then the failure write failed.
C13_Witness ==
    \E j \in JobIds :
        /\ frame[j].result.raised # None
        /\ frame[j].e = frame[j].result.raised
        /\ frame[j].db_error # None
        /\ pc[j] = "done"
        /\ db[j] # None /\ db[j][1].status = "processing"

\* C14: a task whose initial write failed has ended without raising, there is
\* no row for its job, nothing of the pipeline was started for it (no
\* temporary file, no queued call, no local of the pipeline set) and it has
\* no step left; and no task is in the pipeline or at a later write without a
\* row.
C14_FailedCreateAbandonsJob ==
    \A j \in JobIds :
        /\ db[j] = None =>
              pc[j] \in {"unsubmitted", "invalid", "rejected", "scheduled", "done"}
        /\ (pc[j] = "done" /\ db[j] = None) =>
              /\ frame[j] = NoFrame
              /\ j \notin files
              /\ \A i \in 1..Len(queue) : queue[i] # j
              /\ ~TaskStepEnabled(j)

\* C14 witness: an acknowledged job whose initial write failed, while another
\* job has its row.
C14_Witness ==
    \E j \in JobIds, k \in JobIds :
        /\ pc[j] = "done" /\ db[j] = None
        /\ response[j] # None /\ response[j][1].status_code = 200
        /\ db[k] # None

\* A locator of one of the two accepted shapes: s3://bucket/key with a bucket
\* name of letters, digits, ".", "-" and "_", or http(s)://.
AcceptedShape(url) ==
    \/ url[1] \in {"http", "https"}
    \/ /\ url[1] = "s3"
       /\ url[2] # <<>>
       /\ \A i \in 1..Len(url[2]) : url[2][i] # " "
       /\ url[3] # ""

\* C15: a submission with a locator of an accepted shape and a user is
\* answered 200 with its job id and the status processing; at the moment the
\* answer has been issued and the task is only scheduled, no step of the job
\* has run (no row, no temporary file, no local set); and every job that has
\* taken a step was answered before.
C15_AcknowledgedBeforeFirstStep ==
    \A j \in JobIds :
        /\ (pc[j] # "unsubmitted"
            /\ response[j] # None
            /\ AcceptedShape(response[j][1].request.s3_url)
            /\ response[j][1].request.user \notin {None, Some(0)}) =>
              /\ response[j][1].status_code = 200
              /\ response[j][1].body.job_id = j
              /\ response[j][1].body.status = "processing"
        /\ pc[j] = "scheduled" =>
              /\ response[j] # None /\ response[j][1].status_code = 200
              /\ db[j] = None /\ frame[j] = NoFrame /\ j \notin files
        /\ (db[j] # None \/ frame[j] # NoFrame \/ j \in files
            \/ pc[j] \in {"queued", "sampling", "finally", "returned", "failing", "done"}) =>
              response[j] # None /\ response[j][1].status_code = 200

\* C15 witness: a job answered 200 and processing whose task has not created
\* its row, while an earlier job is still in the pipeline.
C15_Witness ==
    \E j \in JobIds, k \in JobIds :
        /\ pc[j] = "scheduled"
        /\ response[j] # None
        /\ response[j][1].status_code = 200
        /\ response[j][1].body = VideoResponse(j)
        /\ db[j] = None
        /\ pc[k] = "sampling"

\* C16: a submission whose locator has neither accepted shape is answered 422
\* with no job id, no task is scheduled for it and it has no row, in any
\* state.
C16_OtherLocatorsRejected ==
    \A j \in JobIds :
        (response[j] # None /\ ~AcceptedShape(response[j][1].request.s3_url)) =>
            /\ response[j][1].status_code = 422
            /\ response[j][1].body = ValidationError
            /\ pc[j] = "invalid"
            /\ task[j] = NoTask
            /\ db[j] = None
            /\ frame[j] = NoFrame
            /\ \A i \in 1..Len(queue) : queue[i] # j
            /\ ~TaskStepEnabled(j)

\* C16 witness: an ftp:// submission was answered 422, and a later
\* submission has gone on to have a row.
C16_Witness ==
    \E j \in JobIds, k \in JobIds :
        /\ response[j] # None
        /\ response[j][1].request.s3_url[1] = "ftp"
        /\ response[j][1].status_code = 422
        /\ pc[j] = "invalid"
        /\ j < k /\ db[k] # None

\* C17: a submission with a locator of an accepted shape and no user is
\* answered 400, no task is scheduled for it and it has no row; and every
\* row has created_by set, to the user of the request it came from.
C17_UserRequired ==
    \A j \in JobIds :
        /\ (response[j] # None
            /\ AcceptedShape(response[j][1].request.s3_url)
            /\ response[j][1].request.user = None) =>
              /\ response[j][1].status_code = 400
              /\ response[j][1].body = UserRequired
              /\ pc[j] = "rejected"
              /\ task[j] = NoTask
              /\ db[j] = None
              /\ ~TaskStepEnabled(j)
        /\ db[j] # None =>
              /\ db[j][1].created_by # None
              /\ db[j][1].created_by = response[j][1].request.user

\* C17 witness: a submission without a user was answered 400, and another
\* job's row carries its user.
C17_Witness ==
    \E j \in JobIds, k \in JobIds :
        /\ response[j] # None
        /\ response[j][1].request.user = None
        /\ response[j][1].status_code = 400
        /\ db[j] = None
        /\ db[k] # None /\ db[k][1].created_by = Some(7)

\* C20: with no model loaded at startup, no job runs the pipeline (no
\* temporary file, no download, no sampling) and none is recorded completed.
C20_NoModelFailsFast ==
    \A j \in JobIds :
        (started /\ model = None) =>
            /\ j \notin files
            /\ frame[j].temp_video_path = None
            /\ pc[j] \notin {"sampling", "finally", "returned"}
            /\ db[j] # None => db[j][1].status # "completed"

\* C12: under fair scheduling, every job that has a row ends with the row
\* completed or failed, unless the failure write of its task failed: a row
\* stays processing for ever only in that case.
C12_CreatedJobsEnd ==
    \A j \in JobIds :
        (db[j] # None) ~> (Terminal(db[j]) \/ (pc[j] = "done" /\ frame[j].db_error # None))

\* C12 witness: one job's task has ended with its row completed or failed,
\* another's with its row left processing by a failed failure write.
C12_Witness ==
    \E j \in JobIds, k \in JobIds :
        /\ pc[j] = "done" /\ Terminal(db[j])
        /\ pc[k] = "done" /\ db[k] # None /\ db[k][1].status = "processing"
        /\ frame[k].db_error # None

\* ------------------------------------------------------- status-query claims

\* This step is a GET /status/{job_id} being answered.
StatusAnswered == call' # call /\ call'.fn = "get_job_status"

\* The table has a row whose key is the text asked for.
HasRow(table, job_id) ==
    /\ job_id.form = "canonical"
    /\ job_id.job \in JobIds
    /\ table[job_id.job] # None

\* C18 as stated: a text that is no uuid is answered with the signal an
\* unknown uuid is answered with, 404 "Job not found".
C18_SameNotFoundSignal ==
    (call.fn = "get_job_status" /\ call.arg.form = "garbage") =>
        call.ret = JobNotFound

\* C18 amended: a text that is no uuid is answered 400 "Invalid job ID
\* format" whatever the table holds; a uuid that is no row's key is answered
\* 404 "Job not found" when the session works; the two answers differ, and
\* neither carries a field of a job.
C18_NotFoundAndInvalidDiffer ==
    [][StatusAnswered =>
          /\ call'.arg.form = "garbage" =>
                /\ call'.ret.status_code = 400
                /\ call'.ret.body = [detail |-> "Invalid job ID format"]
          /\ (call'.arg.form # "garbage" /\ ~HasRow(db, call'.arg)) =>
                \/ call'.ret.status_code = 500
                \/ /\ call'.ret.status_code = 404
                   /\ call'.ret.body = [detail |-> "Job not found"]
          /\ call'.ret.status_code \in {400, 404} => DOMAIN call'.ret.body = {"detail"}
      ]_vars

\* C18 witness: a text that is no uuid was answered 400 while the table
\* holds a row.
C18_Witness ==
    /\ call.fn = "get_job_status"
    /\ call.arg.form = "garbage"
    /\ call.ret.status_code = 400
    /\ \E j \in JobIds : db[j] # None

\* C19: a status request changes no row and nothing else of any job; asked
\* for the key of a row, it answers, when the session works, 200 with that
\* row's job_id, video_id, status, people_count, created_at, completed_at and
\* error_message as they are at that moment.
C19_StatusReadOnlyExact ==
    [][StatusAnswered =>
          /\ db' = db
          /\ <<pc, task, queue, files, frame, response>>' =
                <<pc, task, queue, files, frame, response>>
          /\ \A j \in JobIds :
                (call'.arg = JobIdText("canonical", j) /\ db[j] # None) =>
                    \/ call'.ret.status_code = 500
                    \/ /\ call'.ret.status_code = 200
                       /\ DOMAIN call'.ret.body =
                             {"job_id", "video_id", "status", "people_count",
                              "created_at", "completed_at", "error_message"}
                       /\ call'.ret.body.job_id = db[j][1].job_id
                       /\ call'.ret.body.video_id = db[j][1].video_id
                       /\ call'.ret.body.status = db[j][1].status
                       /\ call'.ret.body.people_count = db[j][1].people_count
                       /\ call'.ret.body.created_at = db[j][1].created_at
                       /\ call'.ret.body.completed_at = db[j][1].completed_at
                       /\ call'.ret.body.error_message = db[j][1].error_message
      ]_vars

\* C19 witness: a job asked about while a worker samples its video is
\* answered with its row, status processing and no count.
C19_Witness ==
    \E j \in JobIds :
        /\ call.fn = "get_job_status"
        /\ call.arg = JobIdText("canonical", j)
        /\ pc[j] = "sampling"
        /\ call.ret.status_code = 200
        /\ call.ret.body.status = "processing"
        /\ call.ret.body.people_count = None
        /\ call.ret.body.job_id = db[j][1].job_id

\* ------------------------------------------------------- startup claims

\* The submission that would come next can be answered in this state.
SubmissionServed ==
    \A j \in JobIds :
        (pc[j] = "unsubmitted" /\ \A k \in JobIds : k < j => pc[k] # "unsubmitted") =>
            ENABLED AnalyzeVideo(j)

\* C21: when initialize() raised at startup the process is up all the same:
\* the next submission, every status request and the health check can be
\* answered; and a health check reports the video processor healthy exactly
\* when the model was loaded and moved to its device without an error.
C21_WarmUpFailureObservable ==
    /\ startup_error # None =>
          /\ started
          /\ SubmissionServed
          /\ \A job_id \in StatusJobIds : ENABLED StatusRequest(job_id)
          /\ ENABLED HealthCheck
    /\ call.fn = "health_check" =>
          (call.ret.video_processor.status = "healthy"
              <=> (startup_error = None /\ model # None))

\* C21 witness: the model could not be loaded, a job submitted afterwards has
\* its row, and the health check does not report the video processor
\* healthy.
C21_Witness ==
    /\ startup_error = Some(ModelLoadError)
    /\ model = None
    /\ \E j \in JobIds : db[j] # None
    /\ call.fn = "health_check"
    /\ call.ret.video_processor.status = "unknown"

\* ------------------------------------------------------- worker-pool claims

\* The submission that would come next, among more jobs than workers.
NextSubmission(j) ==
    /\ j \in DOMAIN pc
    /\ pc[j] = "unsubmitted"
    /\ \A k \in DOMAIN pc : k < j => pc[k] # "unsubmitted"

\* The jobs whose call is in the executor's queue, waiting for a worker.
Waiting == {j \in DOMAIN pc : pc[j] = "queued"}

C25_AtMostTwoRunning ==
    /\ [](/\ Cardinality(Running) <= MaxWorkers
          /\ \A j \in Waiting :
                db[j] # None /\ db[j][1].status = "processing")
    /\ \A j \in PoolJobIds : []<>(pc[j] # "queued")

\* C25 witness: two jobs are running and a third, its row processing, waits.
C25_Witness ==
    /\ Cardinality(Running) = MaxWorkers
    /\ \E j \in Waiting : db[j] # None /\ db[j][1].status = "processing"

\* ------------------------------------------------------- acquirer claims

DownloadCallDone == call.fn = "_download_video" /\ call.done
CleanupCallDone == call.fn = "cleanup" /\ call.done

\* C23: _download_video returns a path only when the whole object was
\* transferred and the file holding it is closed; when the client is
\* missing, the status is an error or the transfer breaks after any number
\* of chunks, it raises one of the download failures and returns no path.
C23_NoPartialFileReturned ==
    DownloadCallDone =>
        LET transfer == call.arg.transfer
            url == call.arg.url
            fails == \/ transfer.error # None
                     \/ ~CanDownload(call.s3_client, url)
        IN  /\ call.ret.path # None =>
                 /\ call.ret.raised = None
                 /\ call.ret.file # None
                 /\ call.ret.file[1].chunks = transfer.size
                 /\ call.ret.file[1].closed
                 /\ CanDownload(call.s3_client, url)
            /\ fails =>
                 /\ call.ret.path = None
                 /\ call.ret.raised # None
                 /\ call.ret.raised[1] \in DownloadFailures(call.s3_client, url)
            /\ ~fails => call.ret.path # None

\* C23 witness: an https transfer broke after a chunk had been written; the
\* file holds part of the object and no path was returned.
C23_Witness ==
    /\ DownloadCallDone
    /\ UrlParse(call.arg.url).scheme = "https"
    /\ call.arg.transfer.error = Some(TransportError)
    /\ call.arg.transfer.delivered >= 1
    /\ call.ret.file[1].chunks < call.arg.transfer.size
    /\ call.ret.path = None

\* C24: the cleanup raises nothing, whether temp_video_path was never
\* assigned, names a file that is gone or names a file that exists; it leaves
\* the files without the one named and touches no other; run again it
\* changes nothing.
C24_CleanupSafeAndIdempotent ==
    CleanupCallDone =>
        LET fs == call.arg.files
            tp == call.arg.temp_video_path
            named == IF tp = None THEN {} ELSE {tp[1]}
        IN  /\ call.ret.once.raised = None
            /\ call.ret.once.files = fs \ named
            /\ call.ret.twice.raised = None
            /\ call.ret.twice.files = call.ret.once.files

\* C24 witness: the cleanup ran twice on a file that existed, next to
\* another job's file, which is still there.
C24_Witness ==
    /\ CleanupCallDone
    /\ call.arg.temp_video_path = Some(1)
    /\ call.arg.files = {1, 2}
    /\ call.ret.once.files = {2}
    /\ call.ret.twice.files = {2}

\* ------------------------------------------------------- ledger claims

Failed(row) == row # None /\ row[1].status = "failed"
Completed(row) == row # None /\ row[1].status = "completed"

\* C26 as stated: a job whose acquisition, sampling and detection returned
\* (people_count was assigned from the pipeline's return value) never has a
\* failed row.
C26_ReturnedNeverFailed ==
    \A j \in JobIds : frame[j].people_count # None => ~Failed(db[j])

\* C26 amended: a row is failed only after acquisition or sampling raised, or
\* after the pipeline returned and the ledger write of the completed
\* transition raised; its error_message is the text of that exception. And
\* when the pipeline returned, the completed write raised and the failure
\* write went through, the row is failed with the text of the write's
\* exception.
C26_FailedAfterPipelineOrWriteError ==
    \A j \in JobIds :
        /\ Failed(db[j]) =>
              /\ frame[j].e # None
              /\ \/ /\ frame[j].result.raised # None
                    /\ frame[j].e = frame[j].result.raised
                    /\ frame[j].people_count = None
                 \/ /\ frame[j].result.raised = None
                    /\ frame[j].people_count # None
                    /\ frame[j].e = Some(DbError)
              /\ db[j][1].error_message = Some(Str(frame[j].e[1]))
        /\ (/\ pc[j] = "done"
            /\ db[j] # None
            /\ frame[j].people_count # None
            /\ frame[j].e # None
            /\ frame[j].db_error = None) =>
              /\ Failed(db[j])
              /\ db[j][1].error_message = Some(Str(DbError))
              /\ db[j][1].people_count = None
        /\ (frame[j].people_count # None /\ frame[j].e = None) => ~Failed(db[j])

\* C26 witness: the pipeline returned a count, the completed write raised,
\* and the row is failed with the database error as its message.
C26_Witness ==
    \E j \in JobIds :
        /\ frame[j].result.raised = None
        /\ frame[j].people_count # None
        /\ Failed(db[j])
        /\ db[j][1].error_message = Some(Str(DbError))

\* C27: the worker takes a job's call, and so begins its download, only when
\* the job's row is in the table as the task created it, status processing;
\* no temporary file and no later stage of a job exists without its row.
C27_RecordBeforeAcquisition ==
    /\ [](\A j \in JobIds :
             (\/ j \in files
              \/ frame[j].temp_video_path # None
              \/ pc[j] \in {"queued", "sampling", "finally", "returned", "failing"}) =>
                 db[j] # None)
    /\ [][\A j \in JobIds :
             (pc[j] = "queued" /\ pc'[j] # "queued") =>
                 /\ db[j] = RowAsCreated(j)
                 /\ db[j][1].status = "processing"
                 /\ j \notin files /\ j \in files']_vars

\* C27 witness: a job's file is being sampled and its row, as created, says
\* processing.
C27_Witness ==
    \E j \in JobIds :
        /\ pc[j] = "sampling"
        /\ j \in files
        /\ db[j] = RowAsCreated(j)
        /\ db[j][1].status = "processing"

\* C28: a job is sampled only once its download has returned the path of its
\* file; its row is completed only once its task is over, the download and
\* the sampling having returned, and the count written is the one the sampler
\* returns for a whole video, the value the pipeline returned for this job.
C28_StagesInOrder ==
    \A j \in JobIds :
        /\ pc[j] = "sampling" =>
              /\ frame[j].temp_video_path = Some(j)
              /\ j \in files
              /\ frame[j].people_count = None
        /\ Completed(db[j]) =>
              /\ pc[j] = "done"
              /\ frame[j].temp_video_path # None
              /\ frame[j].result.raised = None
              /\ frame[j].result \in SamplerOutcomes(model)
              /\ db[j][1].people_count = Some(frame[j].result.value)

\* C28 witness: a job is completed with a count above zero, the one its
\* sampling returned.
C28_Witness ==
    \E j \in JobIds :
        /\ Completed(db[j])
        /\ frame[j].result.value >= 1
        /\ db[j][1].people_count = Some(frame[j].result.value)

\* What job j's row would be had the job run alone: the row its task created,
\* updated with its own count or its own exception.
AloneRows(j) ==
    {RowAsCreated(j)}
    \cup (IF frame[j].people_count = None THEN {}
          ELSE {Some(CompletedRecord(RowAsCreated(j)[1], frame[j].people_count[1]))})
    \cup (IF frame[j].e = None THEN {}
          ELSE {Some(FailedRecord(RowAsCreated(j)[1], frame[j].e[1]))})

\* C29: whatever the interleaving of the jobs, a step changes the row of the
\* job whose task takes the step and of no other; a row is made terminal
\* once, from the row as created; and every row is what the job's own task
\* and pipeline make it, whatever the other jobs did.
C29_RowsIndependent ==
    /\ [](\A j \in JobIds : db[j] # None => db[j] \in AloneRows(j))
    /\ [][\A j \in JobIds :
             db'[j] # db[j] =>
                 /\ pc'[j] # pc[j]
                 /\ \A k \in JobIds \ {j} : pc'[k] = pc[k] /\ db'[k] = db[k]
                 /\ db[j] # None => (db[j] = RowAsCreated(j) /\ Terminal(db'[j]))]_vars

\* C29 witness: a job submitted later has its terminal row while an earlier
\* job is still in the pipeline, its row processing.
C29_Witness ==
    \E j \in JobIds, k \in JobIds :
        /\ j < k
        /\ pc[j] \in {"sampling", "finally"}
        /\ db[j] = RowAsCreated(j)
        /\ Terminal(db[k])

\* C30: once a job has its row, the row stays in the table and its job_id,
\* video_id, s3_url, created_at and created_by never change.
C30_IdentityColumnsImmutable ==
    [][\A j \in JobIds :
          db[j] # None =>
              /\ db'[j] # None
              /\ db'[j][1].job_id = db[j][1].job_id
              /\ db'[j][1].video_id = db[j][1].video_id
              /\ db'[j][1].s3_url = db[j][1].s3_url
              /\ db'[j][1].created_at = db[j][1].created_at
              /\ db'[j][1].created_by = db[j][1].created_by]_vars

\* C30 witness: a completed row and a failed row, each still carrying the
\* columns it was created with.
C30_Witness ==
    \E j \in JobIds, k \in JobIds :
        /\ Completed(db[j]) /\ Failed(db[k])
        /\ \A i \in {j, k} :
              /\ db[i][1].job_id = i
              /\ db[i][1].video_id = task[i].video_id
              /\ db[i][1].s3_url = task[i].s3_url
              /\ db[i][1].created_at = Some(UtcNow(i, "created"))
              /\ db[i][1].created_by = task[i].user_id

\* The statuses a row can have.
RowStatuses == {"processing", "completed", "failed"}

\* C31: every row of the table has status processing, completed or failed,
\* never the column's default pending; a status request for a job that was
\* acknowledged and whose row is not yet created is answered 404 "Job not
\* found" (500 when the session fails), and no answer ever reports a status
\* other than those three.
C31_NoPendingRecord ==
    /\ [](\A j \in JobIds : db[j] # None => db[j][1].status \in RowStatuses)
    /\ [][StatusAnswered =>
             /\ \A j \in JobIds :
                   (/\ call'.arg = JobIdText("canonical", j)
                    /\ pc[j] = "scheduled"
                    /\ response[j] # None
                    /\ response[j][1].status_code = 200) =>
                       /\ db[j] = None
                       /\ \/ call'.ret.status_code = 500
                          \/ /\ call'.ret.status_code = 404
                             /\ call'.ret.body = [detail |-> "Job not found"]
             /\ call'.ret.status_code = 200 => call'.ret.body.status \in RowStatuses
       ]_vars

\* C31 witness: a job was acknowledged, its task has not yet created its
\* row, and a status request for its job_id was answered 404.
C31_Witness ==
    \E j \in JobIds :
        /\ pc[j] = "scheduled"
        /\ response[j] # None
        /\ response[j][1].status_code = 200
        /\ db[j] = None
        /\ call.fn = "get_job_status"
        /\ call.arg = JobIdText("canonical", j)
        /\ call.ret.status_code = 404

\* C32 as stated: for a locator that is neither an s3 URI nor an http(s) URL
\* _download_video fails, has sent no request and has made no temporary
\* file.
C32_OtherLocatorRejectedWithoutFile ==
    (DownloadCallDone /\ UrlParse(call.arg.url).scheme \notin HttpSchemes \cup {"s3"}) =>
        /\ call.ret.raised # None
        /\ call.ret.path = None
        /\ ~call.ret.sent
        /\ call.ret.file = None

\* C33 as stated: for an s3 URI with no S3 client _download_video does not
\* fail for want of the client; it fetches the object over HTTP, and
\* returns a path when that transfer brings the whole object.
C33_S3FallsBackToHttp ==
    (DownloadCallDone /\ UrlParse(call.arg.url).scheme = "s3" /\ call.s3_client = None) =>
        /\ call.ret.raised # Some(S3NotInitialized)
        /\ call.ret.sent
        /\ call.arg.transfer.error = None => call.ret.path # None

====
